---- MODULE Spec2Model ----
(***************************************************************************)
(* A model of the banking application: the SQLite ledger kept by           *)
(* DatabaseManager (src/database.py) and the Tkinter controller and        *)
(* handlers that drive it (src/gui.py).                                    *)
(*                                                                         *)
(* Money amounts are integers (whole currency units; the code uses         *)
(* floats).  Timestamps are naturals: n stands for the n-th second of the  *)
(* clock ("%Y-%m-%d %H:%M:%S" strings order the same way), 0 for the empty *)
(* string an imported row may carry.  A reading of the clock is an input   *)
(* of the handler that takes it.                                           *)
(*                                                                         *)
(* A handler is one atomic action: the GUI is single threaded and runs a   *)
(* callback to completion.  A fault is an sqlite3.Error raised by a write  *)
(* that would otherwise have succeeded (disk full, database locked, ...);  *)
(* the statement that raises changes nothing, the ones before it stay      *)
(* committed, because every ledger call commits on its own.                *)
(*                                                                         *)
(* The state is the three tables, the controller's session fields and      *)
(* caches, the frame and sub-frame raised and the dialog shown last; the   *)
(* texts of labels, entries and tree views are not part of it.  The texts  *)
(* typed are the finite sets below; "nan" and "inf", which float() also    *)
(* accepts, are not among them.                                            *)
(***************************************************************************)
EXTENDS Integers, Sequences, FiniteSets, TLC

\* ---------------------------------------------------------------- bounds
\* Account operations stop once the transaction rows and the faults that
\* have struck number this many.
MaxTransactions == 4
\* Faults injected in one run.
MaxFaults == 1

\* ------------------------------------------------------- program constants
ADMIN_USERNAME == "admin"
ADMIN_PASSWORD == "adminpass"

\* Python's None where an account id is expected (ids start at 1, the admin
\* session uses 0).
None == -1

\* ------------------------------------------------------------- text inputs
\* The texts typed into the amount entries.
InitialDepositEntries == {"abc", "", "-1", "0", "2"}
DepositEntries == {"abc", "-1", "0", "1"}
WithdrawEntries == {"abc", "-1", "0", "1", "2"}
TransferEntries == {"abc", "-1", "0", "1", "2"}

\* float(text): the number, or ValueError (ok = FALSE).
float(text) ==
    CASE text = "-1" -> [ok |-> TRUE, value |-> 0 - 1]
      [] text = "0" -> [ok |-> TRUE, value |-> 0]
      [] text = "1" -> [ok |-> TRUE, value |-> 1]
      [] text = "2" -> [ok |-> TRUE, value |-> 2]
      [] text = "9" -> [ok |-> TRUE, value |-> 9]
      [] text = "10" -> [ok |-> TRUE, value |-> 10]
      [] OTHER -> [ok |-> FALSE, value |-> 0]

\* str.strip() on the username texts the model types.
strip(s) ==
    CASE s = " bob " -> "bob"
      [] s = "  " -> ""
      [] OTHER -> s

\* str.capitalize() and str.lower() on the strings the model meets.
capitalize(s) ==
    CASE s = "deposit" -> "Deposit"
      [] s = "WITHDRAW" -> "Withdraw"
      [] s = "Withdrawal" -> "Withdrawal"
      [] s = "Transfer (In)" -> "Transfer (in)"
      [] OTHER -> s

lower(s) ==
    CASE s = "Deposit" -> "deposit"
      [] s = "Withdraw" -> "withdraw"
      [] s = "Withdrawal" -> "withdrawal"
      [] s = "Transfer (in)" -> "transfer (in)"
      [] s = "Alice" -> "alice"
      [] OTHER -> s

RegisterUsernameEntries == {"alice", " bob ", "  "}
RegisterPasswordEntries == {"pw", ""}
LoginUsernameEntries == {"alice", " bob ", "Alice"}
LoginPasswordEntries == {"pw", "default123", "wrong"}
RecipientEntries == {"alice", " bob ", "Alice"}

\* The CSV file at INITIAL_ACCOUNTS_FILE: absent, or a header and rows.
CsvRow(username, type, amount) ==
    [Username |-> username, Type |-> type, Amount |-> amount,
     Description |-> "", Timestamp |-> 0]

CsvHeader == {"Username", "Type", "Amount", "Description", "Timestamp"}

CsvFiles ==
    {[exists |-> FALSE, fieldnames |-> {}, rows |-> <<>>],
     [exists |-> TRUE, fieldnames |-> {"Username", "Type"},
      rows |-> <<CsvRow("alice", "deposit", "1")>>],
     [exists |-> TRUE, fieldnames |-> CsvHeader,
      rows |-> <<CsvRow("alice", "deposit", "2"), CsvRow("", "deposit", "1"),
                 CsvRow("alice", "WITHDRAW", "abc")>>],
     [exists |-> TRUE, fieldnames |-> CsvHeader,
      rows |-> <<CsvRow("alice", "WITHDRAW", "1")>>],
     [exists |-> TRUE, fieldnames |-> CsvHeader,
      rows |-> <<CsvRow(" bob ", "Withdrawal", "-1")>>]}

\* ------------------------------------------------------------------ state
VARIABLES
    accounts,         \* table accounts: rows [id, username, password, balance]
    transactions,     \* table transactions: rows [id, account_id, type, amount, timestamp, description]
    admins,           \* table admins: rows [id, username, password]
    frame,            \* the top-level frame raised, "closed" before the first start
    sub_frame,        \* the sub-frame raised inside UserHomeFrame / AdminDashboardFrame
    current_user_id,
    current_username,
    is_admin,
    sorted_statements,        \* the controller's cache of the user's statement
    sorted_accounts,          \* the controller's cache of the accounts summary
    sorted_all_transactions,  \* the controller's cache of the system history
    messagebox,       \* the dialog the last handler showed
    faults,           \* writes that have raised sqlite3.Error so far
    sort_arr,         \* a call of merge_sort: its argument arr,
    sort_key_index,   \*   its argument key_index,
    sort_ascending,   \*   its argument ascending,
    sort_returned,    \*   and what it gave back
    balance_user_id,  \* a call of get_balance: its argument user_id
    balance_returned  \*   and what it gave back

db == <<accounts, transactions, admins>>
session == <<current_user_id, current_username, is_admin>>
caches == <<sorted_statements, sorted_accounts, sorted_all_transactions>>
vars == <<accounts, transactions, admins, frame, sub_frame,
          current_user_id, current_username, is_admin,
          sorted_statements, sorted_accounts, sorted_all_transactions,
          messagebox, faults,
          sort_arr, sort_key_index, sort_ascending, sort_returned,
          balance_user_id, balance_returned>>
sort_call == <<sort_arr, sort_key_index, sort_ascending, sort_returned>>
balance_call == <<balance_user_id, balance_returned>>

\* A cache is None or a list of rows.
NoCache == [cached |-> FALSE, rows |-> <<>>]
Cached(rows) == [cached |-> TRUE, rows |-> rows]

NoBox == [kind |-> "none", title |-> "", message |-> ""]
showerror(title, message) == [kind |-> "showerror", title |-> title, message |-> message]
showinfo(title, message) == [kind |-> "showinfo", title |-> title, message |-> message]

\* ------------------------------------------------- DatabaseManager (pure)
Ids(accts) == {accts[i].id : i \in 1..Len(accts)}
Row(accts, id) == accts[CHOOSE i \in 1..Len(accts) : accts[i].id = id]

\* Faulty variant: the lookup ignores case (a NOCASE collation).
get_account_id_by_username_nocase(accts, username) ==
    IF \E i \in 1..Len(accts) : lower(accts[i].username) = lower(username)
    THEN accts[CHOOSE i \in 1..Len(accts) :
                  lower(accts[i].username) = lower(username)].id
    ELSE None

get_account_id_by_username(accts, username) ==
    IF \E i \in 1..Len(accts) : accts[i].username = username
    THEN accts[CHOOSE i \in 1..Len(accts) : accts[i].username = username].id
    ELSE None

\* Faulty variant: the SELECT has no WHERE clause, the first row is taken.
get_balance_first_row(accts, user_id) ==
    IF accts # <<>> THEN accts[1].balance ELSE 0

\* SELECT balance FROM accounts WHERE id=?; 0.00 when no row is fetched.
get_balance(accts, user_id) ==
    IF user_id \in Ids(accts) THEN Row(accts, user_id).balance ELSE 0

\* Faulty variant: the password is not compared.
check_credentials_any_password(accts, username, password) ==
    get_account_id_by_username(accts, username)

\* SELECT id, username FROM accounts WHERE username=? AND password=?
check_credentials(accts, username, password) ==
    IF \E i \in 1..Len(accts) : accts[i].username = username /\ accts[i].password = password
    THEN get_account_id_by_username(accts, username)
    ELSE None

check_admin_credentials(adms, username, password) ==
    \E i \in 1..Len(adms) : adms[i].username = username /\ adms[i].password = password

\* Faulty variant: the balance is overwritten with the amount (SET balance = ?).
update_balance_overwrite(accts, user_id, amount) ==
    [i \in 1..Len(accts) |->
        IF accts[i].id = user_id
        THEN [accts[i] EXCEPT !.balance = amount]
        ELSE accts[i]]

\* Faulty variant: the UPDATE has no WHERE clause.
update_balance_all_rows(accts, user_id, amount) ==
    [i \in 1..Len(accts) |-> [accts[i] EXCEPT !.balance = @ + amount]]

\* UPDATE accounts SET balance = balance + ? WHERE id=?
update_balance(accts, user_id, amount) ==
    [i \in 1..Len(accts) |->
        IF accts[i].id = user_id
        THEN [accts[i] EXCEPT !.balance = @ + amount]
        ELSE accts[i]]

\* INSERT OR REPLACE on the latest rowid instead of INSERT: the new row takes
\* the place of the latest one.
InsertTransaction_replaces_latest(txs, account_id, type, amount, timestamp, description) ==
    LET row == [id |-> IF txs = <<>> THEN 1 ELSE Len(txs),
                account_id |-> account_id, type |-> type, amount |-> amount,
                timestamp |-> timestamp, description |-> description]
    IN  IF txs = <<>> THEN <<row>> ELSE [txs EXCEPT ![Len(txs)] = row]

InsertTransaction(txs, account_id, type, amount, timestamp, description) ==
    Append(txs, [id |-> Len(txs) + 1, account_id |-> account_id, type |-> type,
                 amount |-> amount, timestamp |-> timestamp,
                 description |-> description])

\* The clock: datetime.now() never reads less than a timestamp it gave before.
\* tick = 1 when the second has changed since the latest reading on record.
\* Handlers run seconds apart; the two records of one transfer may or may not
\* fall into the same second.
RECURSIVE LatestReading(_)
LatestReading(txs) ==
    IF txs = <<>> THEN 1
    ELSE LET before == LatestReading(Tail(txs))
         IN  IF Head(txs).timestamp > before THEN Head(txs).timestamp ELSE before

datetime_now(txs, tick) == LatestReading(txs) + tick

\* Faulty variant: the INSERT is not committed, the row is lost.
record_transaction_not_committed(txs, account_id, type, amount, description, timestamp) ==
    txs

\* INSERT INTO transactions ... with the clock's reading as the timestamp.
record_transaction(txs, account_id, type, amount, description, timestamp) ==
    InsertTransaction(txs, account_id, type, amount, timestamp, description)

\* The result create_account returns, with the tables it leaves behind.
Returned(accts, txs, result) ==
    [accounts |-> accts, transactions |-> txs, result |-> result]

\* Faulty variant: the username column is not declared UNIQUE.
UsernameTakenNever(accts, username) == FALSE

\* username TEXT UNIQUE: sqlite3.IntegrityError when a row holds the username.
UsernameTaken(accts, username) ==
    \E i \in 1..Len(accts) : accts[i].username = username

\* Faulty variant: an initial deposit of zero is not recorded.
create_account_skip_zero(accts, txs, username, password, initial_deposit, is_initial_load, fault, tick) ==
    LET parsed == float(initial_deposit)
        new_account_id == Len(accts) + 1
        inserted == Append(accts, [id |-> new_account_id, username |-> username,
                                   password |-> password, balance |-> parsed.value])
    IN  IF ~is_initial_load /\ ~parsed.ok
        THEN Returned(accts, txs, "Initial deposit must be a valid number.")
        ELSE IF ~is_initial_load /\ parsed.value < 0
        THEN Returned(accts, txs, "Initial deposit cannot be negative.")
        ELSE IF \E i \in 1..Len(accts) : accts[i].username = username
        THEN Returned(accts, txs, "Username already exists.")
        ELSE IF fault = 1
        THEN Returned(accts, txs, "Database error: {e}")
        ELSE IF fault = 2
        THEN Returned(inserted, txs, "Database error: {e}")
        ELSE IF parsed.value = 0
        THEN Returned(inserted, txs, "True")
        ELSE Returned(inserted,
                      record_transaction(txs, new_account_id, "Deposit", parsed.value,
                                         "Initial deposit on account creation",
                                         datetime_now(txs, tick)),
                      "True")

\* fault: 0 for none, k for an sqlite3.Error raised by the k-th write
\* (1: the INSERT into accounts, 2: record_transaction).  tick: the clock.
create_account(accts, txs, username, password, initial_deposit, is_initial_load, fault, tick) ==
    LET parsed == float(initial_deposit)
        new_account_id == Len(accts) + 1
        inserted == Append(accts, [id |-> new_account_id, username |-> username,
                                   password |-> password, balance |-> parsed.value])
    IN  IF ~is_initial_load /\ ~parsed.ok
        THEN Returned(accts, txs, "Initial deposit must be a valid number.")
        ELSE IF ~is_initial_load /\ parsed.value < 0
        THEN Returned(accts, txs, "Initial deposit cannot be negative.")
        ELSE IF UsernameTaken(accts, username)
        THEN Returned(accts, txs, "Username already exists.")
        ELSE IF fault = 1
        THEN Returned(accts, txs, "Database error: {e}")
        ELSE IF fault = 2
        THEN Returned(inserted, txs, "Database error: {e}")
        ELSE Returned(inserted,
                      record_transaction(txs, new_account_id, "Deposit", parsed.value,
                                         "Initial deposit on account creation",
                                         datetime_now(txs, tick)),
                      "True")

\* Faulty variant: the seed is inserted without looking for it first.
_connect_db_always_seeds(adms) ==
    Append(adms, [id |-> Len(adms) + 1, username |-> ADMIN_USERNAME,
                  password |-> ADMIN_PASSWORD])

\* Seeds the default admin when no admin row carries ADMIN_USERNAME.
_connect_db(adms) ==
    IF \E i \in 1..Len(adms) : adms[i].username = ADMIN_USERNAME
    THEN adms
    ELSE Append(adms, [id |-> Len(adms) + 1, username |-> ADMIN_USERNAME,
                       password |-> ADMIN_PASSWORD])

\* The loop with the type compared as stored, without lower().
RECURSIVE ImportRows_case_sensitive(_, _, _)
ImportRows_case_sensitive(accts, txs, rows) ==
    IF rows = <<>>
    THEN [accounts |-> accts, transactions |-> txs]
    ELSE
    LET row == Head(rows)
        username == strip(row.Username)
        tx_type == capitalize(strip(row.Type))
        amount == float(row.Amount)
        existing == get_account_id_by_username(accts, username)
        ensured == IF existing = None
                   THEN create_account(accts, txs, username, "default123",
                                       "0", TRUE, 0, 0)
                   ELSE Returned(accts, txs, "True")
        account_id == get_account_id_by_username(ensured.accounts, username)
        recorded == InsertTransaction(ensured.transactions, account_id, tx_type,
                                      amount.value, row.Timestamp, strip(row.Description))
        adjusted == IF tx_type = "deposit"
                    THEN update_balance(ensured.accounts, account_id, amount.value)
                    ELSE IF tx_type = "withdraw"
                    THEN update_balance(ensured.accounts, account_id, 0 - amount.value)
                    ELSE ensured.accounts
    IN  IF ~amount.ok \/ username = "" \/ tx_type = ""
        THEN ImportRows_case_sensitive(accts, txs, Tail(rows))
        ELSE ImportRows_case_sensitive(adjusted, recorded, Tail(rows))

\* The loop over the rows of the CSV file.
RECURSIVE ImportRows(_, _, _)
ImportRows(accts, txs, rows) ==
    IF rows = <<>>
    THEN [accounts |-> accts, transactions |-> txs]
    ELSE
    LET row == Head(rows)
        username == strip(row.Username)
        tx_type == capitalize(strip(row.Type))
        amount == float(row.Amount)
        existing == get_account_id_by_username(accts, username)
        ensured == IF existing = None
                   THEN create_account(accts, txs, username, "default123",
                                       "0", TRUE, 0, 0)
                   ELSE Returned(accts, txs, "True")
        account_id == get_account_id_by_username(ensured.accounts, username)
        recorded == InsertTransaction(ensured.transactions, account_id, tx_type,
                                      amount.value, row.Timestamp, strip(row.Description))
        adjusted == IF lower(tx_type) = "deposit"
                    THEN update_balance(ensured.accounts, account_id, amount.value)
                    ELSE IF lower(tx_type) = "withdraw"
                    THEN update_balance(ensured.accounts, account_id, 0 - amount.value)
                    ELSE ensured.accounts
    IN  IF ~amount.ok \/ username = "" \/ tx_type = ""
        THEN ImportRows(accts, txs, Tail(rows))
        ELSE ImportRows(adjusted, recorded, Tail(rows))

_load_initial_data(accts, txs, csv) ==
    IF Len(txs) > 0 \/ ~csv.exists
       \/ ~({"Username", "Type", "Amount"} \subseteq csv.fieldnames)
    THEN [accounts |-> accts, transactions |-> txs]
    ELSE ImportRows(accts, txs, csv.rows)

\* ------------------------------------------------------- values in rows
\* A value of a fetched row: its Python type, its number (for a str: its
\* place in code point order among the strings the model meets) and its
\* text (for a str).
StrRank(s) ==
    CASE s = "" -> 0
      [] s = "10" -> 1
      [] s = "9" -> 2
      [] s = "Alice" -> 3
      [] s = "Deposit" -> 4
      [] s = "Initial deposit on account creation" -> 5
      [] s = "Transfer (In)" -> 6
      [] s = "Transfer (Out)" -> 7
      [] s = "Transfer (in)" -> 8
      [] s = "Transfer from alice" -> 9
      [] s = "Transfer from bob" -> 10
      [] s = "Transfer to alice" -> 11
      [] s = "Transfer to bob" -> 12
      [] s = "Withdraw" -> 13
      [] s = "Withdrawal" -> 14
      [] s = "abc" -> 15
      [] s = "admin" -> 16
      [] s = "alice" -> 17
      [] s = "bob" -> 18

IntValue(n) == [t |-> "int", n |-> n, s |-> ""]
FloatValue(n) == [t |-> "float", n |-> n, s |-> ""]
StrValue(s) == [t |-> "str", n |-> StrRank(s), s |-> s]
NoneValue == [t |-> "NoneType", n |-> 0, s |-> ""]
\* A "%Y-%m-%d %H:%M:%S" string: the strings order as the seconds they name.
TimestampValue(timestamp) == [t |-> "str", n |-> timestamp, s |-> "%Y-%m-%d %H:%M:%S"]

\* ORDER BY timestamp DESC over rows listed in rowid order; rows with equal
\* timestamps come out in rowid order, as SQLite's sorter delivers them.
RECURSIVE OrderByTimestampDesc(_)
OrderByTimestampDesc(rows) ==
    IF rows = <<>> THEN <<>>
    ELSE LET first == Head(rows)
             rest == OrderByTimestampDesc(Tail(rows))
             k == Cardinality({i \in 1..Len(rest) : rest[i][1].n > first[1].n})
         IN  SubSeq(rest, 1, k) \o <<first>> \o SubSeq(rest, k + 1, Len(rest))

\* Rows (timestamp, type, amount, description) of one account.
RECURSIVE HistoryRows(_, _)
HistoryRows(txs, user_id) ==
    IF txs = <<>> THEN <<>>
    ELSE (IF Head(txs).account_id = user_id
          THEN <<<<TimestampValue(Head(txs).timestamp), StrValue(Head(txs).type),
                   FloatValue(Head(txs).amount), StrValue(Head(txs).description)>>>>
          ELSE <<>>) \o HistoryRows(Tail(txs), user_id)

get_transaction_history(txs, user_id) ==
    OrderByTimestampDesc(HistoryRows(txs, user_id))

\* Rows (id, username, balance) ORDER BY id ASC; ids are handed out in
\* insertion order.
get_all_accounts_summary(accts) ==
    [i \in 1..Len(accts) |->
        <<IntValue(accts[i].id), StrValue(accts[i].username),
          FloatValue(accts[i].balance)>>]

\* Rows (timestamp, username, type, amount, description) of the join of
\* transactions with accounts.
RECURSIVE JoinedRows(_, _)
JoinedRows(accts, txs) ==
    IF txs = <<>> THEN <<>>
    ELSE (IF Head(txs).account_id \in Ids(accts)
          THEN <<<<TimestampValue(Head(txs).timestamp),
                   StrValue(Row(accts, Head(txs).account_id).username),
                   StrValue(Head(txs).type), FloatValue(Head(txs).amount),
                   StrValue(Head(txs).description)>>>>
          ELSE <<>>) \o JoinedRows(accts, Tail(txs))

get_all_transactions(accts, txs) == OrderByTimestampDesc(JoinedRows(accts, txs))

\* ------------------------------------------------------------- merge sort
\* float(value) inside merge: ValueError for a str that is no number,
\* TypeError for None (ok = FALSE for both).
float_of_value(value) ==
    IF value.t \in {"int", "float"} THEN [ok |-> TRUE, value |-> value.n]
    ELSE IF value.t = "str" THEN float(value.s)
    ELSE [ok |-> FALSE, value |-> 0]

\* left_val and right_val as merge compares them: for the key indexes 2 and 3
\* float(left_val) is assigned before float(right_val) is tried, and the
\* except clause passes, so a left_val that converts stays converted when
\* right_val does not.
Converted(left_val, right_val, key_index) ==
    LET l == float_of_value(left_val)
        r == float_of_value(right_val)
    IN  IF key_index \notin {2, 3} \/ ~l.ok
        THEN [left_val |-> left_val, right_val |-> right_val]
        ELSE IF ~r.ok
        THEN [left_val |-> FloatValue(l.value), right_val |-> right_val]
        ELSE [left_val |-> FloatValue(l.value), right_val |-> FloatValue(r.value)]

\* Python compares two numbers and two strings; `<` and `>` between any other
\* pair of the model's values raise TypeError.
Comparable(left_val, right_val) ==
    \/ left_val.t \in {"int", "float"} /\ right_val.t \in {"int", "float"}
    \/ left_val.t = "str" /\ right_val.t = "str"

LessThan(left_val, right_val) == left_val.n < right_val.n

\* What merge and merge_sort give back: the list, or the TypeError raised.
ReturnedList(result) == [raised |-> FALSE, result |-> result]
RaisedTypeError == [raised |-> TRUE, result |-> <<>>]

\* Faulty variant: what is left of `right` when `left` runs out is dropped
\* (result.extend(right[j:]) forgotten).
RECURSIVE merge_drops_right(_, _, _, _)
merge_drops_right(left, right, key_index, ascending) ==
    IF left = <<>> THEN ReturnedList(<<>>)
    ELSE IF right = <<>> THEN ReturnedList(left)
    ELSE LET vals == Converted(Head(left)[key_index + 1],
                               Head(right)[key_index + 1], key_index)
             take_left == IF ascending
                          THEN LessThan(vals.left_val, vals.right_val)
                          ELSE LessThan(vals.right_val, vals.left_val)
             rest == IF take_left
                     THEN merge_drops_right(Tail(left), right, key_index, ascending)
                     ELSE merge_drops_right(left, Tail(right), key_index, ascending)
             taken == IF take_left THEN Head(left) ELSE Head(right)
         IN  IF ~Comparable(vals.left_val, vals.right_val) \/ rest.raised
             THEN RaisedTypeError
             ELSE ReturnedList(<<taken>> \o rest.result)

RECURSIVE merge(_, _, _, _)
merge(left, right, key_index, ascending) ==
    IF left = <<>> THEN ReturnedList(right)
    ELSE IF right = <<>> THEN ReturnedList(left)
    ELSE LET vals == Converted(Head(left)[key_index + 1],
                               Head(right)[key_index + 1], key_index)
             take_left == IF ascending
                          THEN LessThan(vals.left_val, vals.right_val)
                          ELSE LessThan(vals.right_val, vals.left_val)
             rest == IF take_left
                     THEN merge(Tail(left), right, key_index, ascending)
                     ELSE merge(left, Tail(right), key_index, ascending)
             taken == IF take_left THEN Head(left) ELSE Head(right)
         IN  IF ~Comparable(vals.left_val, vals.right_val) \/ rest.raised
             THEN RaisedTypeError
             ELSE ReturnedList(<<taken>> \o rest.result)

RECURSIVE merge_sort(_, _, _)
merge_sort(arr, key_index, ascending) ==
    IF Len(arr) <= 1 THEN ReturnedList(arr)
    ELSE LET mid == Len(arr) \div 2
             left == merge_sort(SubSeq(arr, 1, mid), key_index, ascending)
             right == merge_sort(SubSeq(arr, mid + 1, Len(arr)), key_index, ascending)
         IN  IF left.raised \/ right.raised
             THEN RaisedTypeError
             ELSE merge(left.result, right.result, key_index, ascending)

\* Faulty variant: merge_sort is left out, the list is cached as fetched.
SortedOrFallback_unsorted(history, key_index, ascending) == history

\* try: merge_sort(...) except Exception: the order the database gave.
SortedOrFallback(history, key_index, ascending) ==
    LET sorted == merge_sort(history, key_index, ascending)
    IN  IF sorted.raised THEN history ELSE sorted.result

\* Faulty variant: the statement of the first account is fetched, whoever
\* logs in.
prefetch_and_sort_statements_of_first_account(txs, user_id) ==
    Cached(SortedOrFallback(get_transaction_history(txs, 1), 0, FALSE))

prefetch_and_sort_statements(txs, user_id) ==
    Cached(SortedOrFallback(get_transaction_history(txs, user_id), 0, FALSE))

prefetch_and_sort_accounts(accts) ==
    Cached(SortedOrFallback(get_all_accounts_summary(accts), 1, TRUE))

prefetch_and_sort_all_transactions(accts, txs) ==
    Cached(SortedOrFallback(get_all_transactions(accts, txs), 0, FALSE))

\* ------------------------------------------------------------ BankingApp
NoSubFrame == "None"
EntryFrames == {"RegisterFrame", "LoginFrame", "AdminLoginFrame"}
UserSubFrames == {"AccountSummaryFrame", "DepositFrame", "WithdrawFrame",
                  "TransferFrame", "StatementFrame"}
AdminSubFrames == {"AdminOverviewFrame", "AdminAccountsFrame", "AdminStatementFrame"}

\* merge_sort has not been called (yet).
NotCalled == [called |-> FALSE, raised |-> FALSE, result |-> <<>>]

\* get_balance has not been called (yet).
NoBalance == [called |-> FALSE, result |-> 0]

\* The application before its first start.
NotStarted ==
    /\ accounts = <<>>
    /\ transactions = <<>>
    /\ admins = <<>>
    /\ frame = "closed"
    /\ sub_frame = NoSubFrame
    /\ current_user_id = None
    /\ current_username = "None"
    /\ is_admin = FALSE
    /\ sorted_statements = NoCache
    /\ sorted_accounts = NoCache
    /\ sorted_all_transactions = NoCache
    /\ messagebox = NoBox
    /\ faults = 0

Init ==
    /\ NotStarted
    /\ sort_arr = <<>>
    /\ sort_key_index = 0
    /\ sort_ascending = TRUE
    /\ sort_returned = NotCalled
    /\ balance_user_id = None
    /\ balance_returned = NoBalance

\* The application is started (again): DatabaseManager() opens the database
\* file, seeds the admin, imports the CSV file when the transactions table is
\* empty, and the welcome frame is raised with nobody logged in.  The file is
\* not looked at when the table holds rows; one file stands for all then.
BankingApp_init(csv) ==
    LET loaded == _load_initial_data(accounts, transactions, csv)
    IN  /\ Len(transactions) > 0 => ~csv.exists
        /\ admins' = _connect_db(admins)
        /\ accounts' = loaded.accounts
        /\ transactions' = loaded.transactions
        /\ current_user_id' = None
        /\ current_username' = "None"
        /\ is_admin' = FALSE
        /\ frame' = "WelcomeFrame"
        /\ sub_frame' = NoSubFrame
        /\ sorted_statements' = NoCache
        /\ sorted_accounts' = NoCache
        /\ sorted_all_transactions' = NoCache
        /\ messagebox' = NoBox
        /\ UNCHANGED <<faults, sort_call, balance_call>>

\* The buttons of the welcome frame and the "Back to Welcome" buttons.
show_frame(page_name) ==
    /\ \/ frame = "WelcomeFrame" /\ page_name \in EntryFrames
       \/ frame \in EntryFrames /\ page_name = "WelcomeFrame"
    /\ frame' = page_name
    /\ messagebox' = NoBox
    /\ UNCHANGED <<db, sub_frame, session, caches, faults, sort_call, balance_call>>

login(user_id, username, admin) ==
    /\ current_user_id' = user_id
    /\ current_username' = username
    /\ is_admin' = admin
    /\ sorted_statements' =
         IF ~admin /\ user_id # None
         THEN prefetch_and_sort_statements(transactions, user_id)
         ELSE sorted_statements
    /\ sorted_accounts' =
         IF admin THEN prefetch_and_sort_accounts(accounts) ELSE sorted_accounts
    /\ sorted_all_transactions' =
         IF admin THEN prefetch_and_sort_all_transactions(accounts, transactions)
         ELSE sorted_all_transactions
    /\ frame' = IF admin THEN "AdminDashboardFrame" ELSE "UserHomeFrame"
    /\ sub_frame' = IF admin THEN "AdminOverviewFrame" ELSE "AccountSummaryFrame"

logout ==
    /\ frame \in {"UserHomeFrame", "AdminDashboardFrame"}
    /\ current_user_id' = None
    /\ current_username' = "None"
    /\ is_admin' = FALSE
    /\ frame' = "WelcomeFrame"
    /\ sub_frame' = NoSubFrame
    /\ sorted_statements' = NoCache
    /\ sorted_accounts' = NoCache
    /\ sorted_all_transactions' = NoCache
    /\ messagebox' = NoBox
    /\ UNCHANGED <<db, faults, sort_call, balance_call>>

\* The sidebar buttons of the two content frames.
show_sub_frame(page_name) ==
    /\ \/ frame = "UserHomeFrame" /\ page_name \in UserSubFrames
       \/ frame = "AdminDashboardFrame" /\ page_name \in AdminSubFrames
    /\ sub_frame' = page_name
    /\ messagebox' = NoBox
    /\ UNCHANGED <<db, frame, session, caches, faults, sort_call, balance_call>>

\* The rows StatementFrame.on_show puts into statement_tree when the
\* statement view is raised: none without a user id; the list cached at
\* login when there is one; else the history fetched and sorted now (the
\* placeholder line shown for an empty history is not a row of the list).
StatementFrame_on_show ==
    IF current_user_id \in {None, 0} THEN <<>>
    ELSE IF sorted_statements.cached THEN sorted_statements.rows
    ELSE SortedOrFallback(get_transaction_history(transactions, current_user_id),
                          0, FALSE)

register_user(username_entry, password, initial_deposit, fault, tick) ==
    LET username == strip(username_entry)
        created == create_account(accounts, transactions, username, password,
                                  initial_deposit, FALSE, fault, tick)
        reaches_insert == /\ username # "" /\ password # "" /\ initial_deposit # ""
                          /\ create_account(accounts, transactions, username, password,
                                            initial_deposit, FALSE, 0, tick).result = "True"
    IN  /\ frame = "RegisterFrame"
        /\ Len(transactions) + faults < MaxTransactions
        /\ fault # 0 => faults < MaxFaults /\ reaches_insert
        /\ IF username = "" \/ password = "" \/ initial_deposit = ""
           THEN /\ messagebox' = showerror("Error", "All fields are required.")
                /\ UNCHANGED <<accounts, transactions, frame>>
           ELSE /\ accounts' = created.accounts
                /\ transactions' = created.transactions
                /\ IF created.result = "True"
                   THEN /\ messagebox' = showinfo("Success",
                               "Account created successfully! You can now log in.")
                        /\ frame' = "LoginFrame"
                   ELSE /\ messagebox' = showerror("Registration Failed", created.result)
                        /\ UNCHANGED frame
        /\ faults' = IF messagebox'.message = "Database error: {e}" THEN faults + 1 ELSE faults
        /\ UNCHANGED <<admins, sub_frame, session, caches, sort_call, balance_call>>

login_user(username_entry, password) ==
    LET username == strip(username_entry)
        user_id == check_credentials(accounts, username, password)
    IN  /\ frame = "LoginFrame"
        /\ IF user_id # None
           THEN /\ messagebox' = showinfo("Success", "Welcome, {uname}!")
                /\ login(user_id, username, FALSE)
           ELSE /\ messagebox' = showerror("Login Failed", "Invalid username or password.")
                /\ UNCHANGED <<frame, sub_frame, session, caches>>
        /\ UNCHANGED <<db, faults, sort_call, balance_call>>

login_admin(username_entry, password) ==
    LET username == strip(username_entry)
    IN  /\ frame = "AdminLoginFrame"
        /\ IF check_admin_credentials(admins, username, password)
           THEN /\ messagebox' = showinfo("Success", "Welcome, Admin {username}!")
                /\ login(0, username, TRUE)
           ELSE /\ messagebox' = showerror("Login Failed", "Invalid admin credentials.")
                /\ UNCHANGED <<frame, sub_frame, session, caches>>
        /\ UNCHANGED <<db, faults, sort_call, balance_call>>

\* ------------------------------------------------------------- handlers
\* fault: 0 for none, k for an sqlite3.Error raised by the k-th ledger call
\* of the handler's try block; the except clause reports it.  `faults` counts
\* the faults that have struck.  A fault strikes a ledger call only, so a
\* handler that returns before its try block takes fault = 0; a clock reading
\* that is never taken is 0.

\* Faulty variant: zero passes the check.
NotPositiveZeroAllowed(amount) == amount < 0

\* `if amount <= 0` of the three handlers.
NotPositive(amount) == amount <= 0

\* Faulty variant: the comparison is the wrong way round.
ExceedsBalanceReversed(amount, current_balance) == amount < current_balance

\* `if amount > current_balance` of handle_withdraw and handle_transfer.
ExceedsBalance(amount, current_balance) == amount > current_balance

\* The checks handle_deposit makes before it touches the ledger: the error
\* dialog of the first check that fails, NoBox when all pass.
deposit_checks(parsed) ==
    IF ~parsed.ok
    THEN showerror("Invalid Input", "Please enter a valid number for the amount.")
    ELSE IF NotPositive(parsed.value)
    THEN showerror("Invalid Amount", "Deposit amount must be positive.")
    ELSE NoBox

handle_deposit(amount_entry, fault, tick) ==
    LET parsed == float(amount_entry)
        amount == parsed.value
        user_id == current_user_id
        rejected == deposit_checks(parsed)
    IN  /\ frame = "UserHomeFrame" /\ sub_frame = "DepositFrame"
        /\ Len(transactions) + faults < MaxTransactions
        /\ fault # 0 => faults < MaxFaults /\ rejected = NoBox
        /\ IF rejected # NoBox
           THEN /\ messagebox' = rejected
                /\ UNCHANGED <<accounts, transactions, sub_frame>>
           ELSE /\ accounts' = IF fault = 1 THEN accounts
                               ELSE update_balance(accounts, user_id, amount)
                /\ transactions' = IF fault \in {1, 2} THEN transactions
                                   ELSE record_transaction(transactions, user_id,
                                                           "Deposit", amount, "",
                                                           datetime_now(transactions, tick))
                /\ IF fault = 0
                   THEN /\ messagebox' = showinfo("Success",
                               "Successfully deposited ${amount:,.2f}.")
                        /\ sub_frame' = "AccountSummaryFrame"
                   ELSE /\ messagebox' = showerror("Error", "An error occurred: {e}")
                        /\ UNCHANGED sub_frame
        /\ faults' = IF messagebox'.title = "Error" THEN faults + 1 ELSE faults
        /\ UNCHANGED <<admins, frame, session, caches, sort_call, balance_call>>

\* Faulty variant: the funds are not checked.
withdraw_checks_without_funds(parsed, current_balance) ==
    IF ~parsed.ok
    THEN showerror("Invalid Input", "Please enter a valid number for the amount.")
    ELSE IF NotPositive(parsed.value)
    THEN showerror("Invalid Amount", "Withdrawal amount must be positive.")
    ELSE NoBox

\* The checks handle_withdraw makes before it touches the ledger.
withdraw_checks(parsed, current_balance) ==
    IF ~parsed.ok
    THEN showerror("Invalid Input", "Please enter a valid number for the amount.")
    ELSE IF NotPositive(parsed.value)
    THEN showerror("Invalid Amount", "Withdrawal amount must be positive.")
    ELSE IF ExceedsBalance(parsed.value, current_balance)
    THEN showerror("Insufficient Funds",
                   "You only have ${current_balance:,.2f} in your account.")
    ELSE NoBox

handle_withdraw(amount_entry, fault, tick) ==
    LET parsed == float(amount_entry)
        amount == parsed.value
        user_id == current_user_id
        current_balance == get_balance(accounts, user_id)
        rejected == withdraw_checks(parsed, current_balance)
    IN  /\ frame = "UserHomeFrame" /\ sub_frame = "WithdrawFrame"
        /\ Len(transactions) + faults < MaxTransactions
        /\ fault # 0 => faults < MaxFaults /\ rejected = NoBox
        /\ IF rejected # NoBox
           THEN /\ messagebox' = rejected
                /\ UNCHANGED <<accounts, transactions, sub_frame>>
           ELSE /\ accounts' = IF fault = 1 THEN accounts
                               ELSE update_balance(accounts, user_id, 0 - amount)
                /\ transactions' = IF fault \in {1, 2} THEN transactions
                                   ELSE record_transaction(transactions, user_id,
                                                           "Withdrawal", 0 - amount, "",
                                                           datetime_now(transactions, tick))
                /\ IF fault = 0
                   THEN /\ messagebox' = showinfo("Success",
                               "Successfully withdrew ${amount:,.2f}.")
                        /\ sub_frame' = "AccountSummaryFrame"
                   ELSE /\ messagebox' = showerror("Error", "An error occurred: {e}")
                        /\ UNCHANGED sub_frame
        /\ faults' = IF messagebox'.title = "Error" THEN faults + 1 ELSE faults
        /\ UNCHANGED <<admins, frame, session, caches, sort_call, balance_call>>

\* Faulty variant: the funds are checked before the recipient is compared
\* with the sender.
transfer_checks_funds_first(parsed, sender_id, recipient_id, current_balance) ==
    IF ~parsed.ok
    THEN showerror("Invalid Input", "Please enter a valid number for the amount.")
    ELSE IF NotPositive(parsed.value)
    THEN showerror("Invalid Amount", "Transfer amount must be positive.")
    ELSE IF recipient_id = None
    THEN showerror("Transfer Failed",
                   "Recipient account '{recipient_username}' not found.")
    ELSE IF ExceedsBalance(parsed.value, current_balance)
    THEN showerror("Insufficient Funds",
                   "You only have ${current_balance:,.2f} in your account.")
    ELSE IF sender_id = recipient_id
    THEN showerror("Transfer Failed", "Cannot transfer funds to your own account.")
    ELSE NoBox

\* Faulty variant: the funds are checked before the recipient is looked up.
transfer_checks_funds_before_recipient(parsed, sender_id, recipient_id, current_balance) ==
    IF ~parsed.ok
    THEN showerror("Invalid Input", "Please enter a valid number for the amount.")
    ELSE IF NotPositive(parsed.value)
    THEN showerror("Invalid Amount", "Transfer amount must be positive.")
    ELSE IF ExceedsBalance(parsed.value, current_balance)
    THEN showerror("Insufficient Funds",
                   "You only have ${current_balance:,.2f} in your account.")
    ELSE IF recipient_id = None
    THEN showerror("Transfer Failed",
                   "Recipient account '{recipient_username}' not found.")
    ELSE IF sender_id = recipient_id
    THEN showerror("Transfer Failed", "Cannot transfer funds to your own account.")
    ELSE NoBox

\* The checks handle_transfer makes before it touches the ledger.
transfer_checks(parsed, sender_id, recipient_id, current_balance) ==
    IF ~parsed.ok
    THEN showerror("Invalid Input", "Please enter a valid number for the amount.")
    ELSE IF NotPositive(parsed.value)
    THEN showerror("Invalid Amount", "Transfer amount must be positive.")
    ELSE IF recipient_id = None
    THEN showerror("Transfer Failed",
                   "Recipient account '{recipient_username}' not found.")
    ELSE IF sender_id = recipient_id
    THEN showerror("Transfer Failed", "Cannot transfer funds to your own account.")
    ELSE IF ExceedsBalance(parsed.value, current_balance)
    THEN showerror("Insufficient Funds",
                   "You only have ${current_balance:,.2f} in your account.")
    ELSE NoBox

\* Faulty variant: the debit and the credit go to the wrong accounts.
TransferAccountsSwapped(sender_id, recipient_id, amount, done) ==
    LET debited == IF done >= 1 THEN update_balance(accounts, recipient_id, 0 - amount)
                   ELSE accounts
    IN  IF done >= 2 THEN update_balance(debited, sender_id, amount) ELSE debited

\* Faulty variant: the sender is not debited.
TransferAccounts_credit_only(sender_id, recipient_id, amount, done) ==
    IF done >= 2 THEN update_balance(accounts, recipient_id, amount) ELSE accounts

\* The four ledger calls of a transfer, the first `done` of them applied.
TransferAccounts(sender_id, recipient_id, amount, done) ==
    LET debited == IF done >= 1 THEN update_balance(accounts, sender_id, 0 - amount)
                   ELSE accounts
    IN  IF done >= 2 THEN update_balance(debited, recipient_id, amount) ELSE debited

\* Faulty variant: the sender's row carries the amount without the minus sign.
TransferTransactions_unsigned(sender_id, recipient_id, amount, recipient_username, done, tick, tick2) ==
    LET out == IF done >= 3
               THEN record_transaction(transactions, sender_id, "Transfer (Out)",
                                       amount, "Transfer to " \o recipient_username,
                                       datetime_now(transactions, tick))
               ELSE transactions
    IN  IF done >= 4
        THEN record_transaction(out, recipient_id, "Transfer (In)", amount,
                                "Transfer from " \o current_username,
                                datetime_now(out, tick2))
        ELSE out

TransferTransactions(sender_id, recipient_id, amount, recipient_username, done, tick, tick2) ==
    LET out == IF done >= 3
               THEN record_transaction(transactions, sender_id, "Transfer (Out)",
                                       0 - amount, "Transfer to " \o recipient_username,
                                       datetime_now(transactions, tick))
               ELSE transactions
    IN  IF done >= 4
        THEN record_transaction(out, recipient_id, "Transfer (In)", amount,
                                "Transfer from " \o current_username,
                                datetime_now(out, tick2))
        ELSE out

\* Faulty variant: the exception is swallowed and success is reported.
TransferReportAlwaysSuccess(done) ==
    showinfo("Success",
             "Successfully transferred ${amount:,.2f} to {recipient_username}.")

\* What the handler tells the user once the try block is left.
TransferReport(done) ==
    IF done = 4
    THEN showinfo("Success",
                  "Successfully transferred ${amount:,.2f} to {recipient_username}.")
    ELSE showerror("Error", "An error occurred during transfer: {e}")

handle_transfer(recipient_entry, amount_entry, fault, tick, tick2) ==
    LET recipient_username == strip(recipient_entry)
        parsed == float(amount_entry)
        amount == parsed.value
        sender_id == current_user_id
        recipient_id == get_account_id_by_username(accounts, recipient_username)
        current_balance == get_balance(accounts, sender_id)
        rejected == transfer_checks(parsed, sender_id, recipient_id, current_balance)
        done == IF fault = 0 THEN 4 ELSE fault - 1
    IN  /\ frame = "UserHomeFrame" /\ sub_frame = "TransferFrame"
        /\ Len(transactions) + faults + 2 <= MaxTransactions
        /\ fault # 0 => faults < MaxFaults /\ rejected = NoBox
        /\ tick2 # 0 => rejected = NoBox /\ done = 4
        /\ IF rejected # NoBox
           THEN /\ messagebox' = rejected
                /\ UNCHANGED <<accounts, transactions, sub_frame>>
           ELSE /\ accounts' = TransferAccounts(sender_id, recipient_id, amount, done)
                /\ transactions' = TransferTransactions(sender_id, recipient_id, amount,
                                                        recipient_username, done,
                                                        tick, tick2)
                /\ messagebox' = TransferReport(done)
                /\ sub_frame' = IF done = 4 THEN "AccountSummaryFrame" ELSE sub_frame
        /\ faults' = IF messagebox'.title = "Error" THEN faults + 1 ELSE faults
        /\ UNCHANGED <<admins, frame, session, caches, sort_call, balance_call>>

\* ---------------------------------------------------------- specification
Next ==
    \/ \E csv \in CsvFiles : BankingApp_init(csv)
    \/ \E page_name \in EntryFrames \cup {"WelcomeFrame"} : show_frame(page_name)
    \/ \E u \in RegisterUsernameEntries, p \in RegisterPasswordEntries,
          d \in InitialDepositEntries, fault \in 0..2, tick \in {1} :
          register_user(u, p, d, fault, tick)
    \/ \E u \in LoginUsernameEntries, p \in LoginPasswordEntries : login_user(u, p)
    \/ \E u \in {ADMIN_USERNAME, "alice"}, p \in {ADMIN_PASSWORD, "pw"} : login_admin(u, p)
    \/ logout
    \/ \E page_name \in UserSubFrames \cup AdminSubFrames : show_sub_frame(page_name)
    \/ \E a \in DepositEntries, fault \in 0..2, tick \in {1} :
          handle_deposit(a, fault, tick)
    \/ \E a \in WithdrawEntries, fault \in 0..2, tick \in {1} :
          handle_withdraw(a, fault, tick)
    \/ \E r \in RecipientEntries, a \in TransferEntries, fault \in 0..4,
          tick \in {1}, tick2 \in 0..1 : handle_transfer(r, a, fault, tick, tick2)

Spec == Init /\ [][Next]_vars

\* ------------------------------------------------ merge_sort on its own
\* The longest list handed to merge_sort.
MaxLen == 3

\* Statement records (timestamp, type, amount, description): two that agree
\* on timestamp and amount, descriptions that read as numbers, an amount
\* that is text and one that is missing.
StatementRecords ==
    {<<TimestampValue(1), StrValue("Deposit"), FloatValue(1), StrValue("9")>>,
     <<TimestampValue(1), StrValue("Withdrawal"), FloatValue(1), StrValue("10")>>,
     <<TimestampValue(2), StrValue("Deposit"), FloatValue(2), StrValue("abc")>>,
     <<TimestampValue(3), StrValue("Deposit"), StrValue("abc"), StrValue("")>>,
     <<TimestampValue(3), StrValue("Deposit"), NoneValue, StrValue("")>>}

\* System history records (timestamp, username, type, amount, description).
AllTransactionRecords ==
    {<<TimestampValue(1), StrValue("alice"), StrValue("9"), FloatValue(1), StrValue("")>>,
     <<TimestampValue(1), StrValue("bob"), StrValue("10"), FloatValue(2), StrValue("")>>,
     <<TimestampValue(2), StrValue("alice"), StrValue("Deposit"), FloatValue(1), StrValue("")>>}

\* The lists of up to MaxLen records of one shape.
ListsOf(records) ==
    UNION {[1..n -> records] : n \in 0..MaxLen}

SortInit ==
    /\ NotStarted
    /\ sort_arr \in ListsOf(StatementRecords) \cup ListsOf(AllTransactionRecords)
    /\ sort_key_index \in 0..3
    /\ sort_ascending \in BOOLEAN
    /\ sort_returned = NotCalled
    /\ balance_user_id = None
    /\ balance_returned = NoBalance

\* merge_sort(arr, key_index, ascending) is called and returns or raises.
call_merge_sort ==
    LET returned == merge_sort(sort_arr, sort_key_index, sort_ascending)
    IN  /\ ~sort_returned.called
        /\ sort_returned' = [called |-> TRUE, raised |-> returned.raised,
                             result |-> returned.result]
        /\ UNCHANGED <<db, frame, sub_frame, session, caches, messagebox, faults,
                       sort_arr, sort_key_index, sort_ascending, balance_call>>

SortNext == call_merge_sort

SortSpec == SortInit /\ [][SortNext]_vars

\* ------------------------------------------------- calls of get_balance
\* get_balance as a function of the store: every store that up to
\* MaxAccounts account creations leave behind, every user_id around the ids
\* in use, and None (current_user_id when nobody is logged in).
MaxAccounts == 2

Creations == {"alice", "bob"} \X {"0", "1", "2"}

RECURSIVE StoreAfter(_)
StoreAfter(creations) ==
    IF creations = <<>>
    THEN [accounts |-> <<>>, transactions |-> <<>>]
    ELSE LET before == StoreAfter(SubSeq(creations, 1, Len(creations) - 1))
             creation == creations[Len(creations)]
             created == create_account(before.accounts, before.transactions,
                                       creation[1], "pw", creation[2], FALSE, 0, 1)
         IN  [accounts |-> created.accounts, transactions |-> created.transactions]

BalanceInit ==
    /\ \E creations \in UNION {[1..n -> Creations] : n \in 0..MaxAccounts} :
         /\ accounts = StoreAfter(creations).accounts
         /\ transactions = StoreAfter(creations).transactions
    /\ admins = _connect_db(<<>>)
    /\ frame = "closed"
    /\ sub_frame = NoSubFrame
    /\ current_user_id = None
    /\ current_username = "None"
    /\ is_admin = FALSE
    /\ sorted_statements = NoCache
    /\ sorted_accounts = NoCache
    /\ sorted_all_transactions = NoCache
    /\ messagebox = NoBox
    /\ faults = 0
    /\ sort_arr = <<>>
    /\ sort_key_index = 0
    /\ sort_ascending = TRUE
    /\ sort_returned = NotCalled
    /\ balance_user_id \in {None} \cup 0..(MaxAccounts + 1)
    /\ balance_returned = NoBalance

\* get_balance(user_id) is called and returns.
call_get_balance ==
    /\ ~balance_returned.called
    /\ balance_returned' = [called |-> TRUE,
                            result |-> get_balance(accounts, balance_user_id)]
    /\ UNCHANGED <<db, frame, sub_frame, session, caches, messagebox, faults,
                   sort_call, balance_user_id>>

BalanceNext == call_get_balance

BalanceSpec == BalanceInit /\ [][BalanceNext]_vars

\* ------------------------------------------------------------ properties
\* A property of a handler is stated over the steps taken from the frame that
\* carries the handler's button, for every input the handler may be given.
\* The sum of the amounts of the transactions recorded for an account.
RECURSIVE TxSum(_, _)
TxSum(txs, account_id) ==
    IF txs = <<>> THEN 0
    ELSE (IF Head(txs).account_id = account_id THEN Head(txs).amount ELSE 0)
         + TxSum(Tail(txs), account_id)

\* An account row carries the username.
HasAccount(username) ==
    \E i \in 1..Len(accounts) : accounts[i].username = username

\* The id of the account row that carries the username.
IdOf(username) ==
    accounts[CHOOSE i \in 1..Len(accounts) : accounts[i].username = username].id

\* The balance column of the row with the id, before and after a step.
BalanceBefore(id) ==
    accounts[CHOOSE i \in 1..Len(accounts) : accounts[i].id = id].balance
BalanceAfter(id) ==
    accounts'[CHOOSE i \in 1..Len(accounts') : accounts'[i].id = id].balance

\* C1: after any sequence of ledger operations (account creation, deposit,
\* withdraw, transfer, first-run CSV import) the stored balance of every
\* account equals the sum of the amounts of that account's transactions.
C1_BalanceIsSumOfTransactions ==
    \A i \in 1..Len(accounts) :
        accounts[i].balance = TxSum(transactions, accounts[i].id)

\* C2: a withdraw whose amount exceeds the current balance is rejected with
\* an error dialog and leaves accounts and transactions unchanged; the dialog
\* is "Insufficient Funds" whenever the amount passed the check that comes
\* first (it is positive).
C2_WithdrawOverBalanceRejected ==
    [][sub_frame = "WithdrawFrame" =>
       \A a \in WithdrawEntries, fault \in 0..2, tick \in {1} :
        (/\ handle_withdraw(a, fault, tick)
         /\ float(a).ok
         /\ float(a).value > BalanceBefore(current_user_id))
        => /\ messagebox'.kind = "showerror"
           /\ float(a).value > 0 => messagebox'.title = "Insufficient Funds"
           /\ accounts' = accounts
           /\ transactions' = transactions]_vars

\* A withdrawal was refused for lack of funds on an account that holds nothing.
C2_Witness ==
    /\ sub_frame = "WithdrawFrame"
    /\ messagebox.title = "Insufficient Funds"
    /\ HasAccount(current_username)
    /\ BalanceBefore(current_user_id) = 0
    /\ transactions # <<>>

\* C3: a deposit whose amount is not a number, or is zero or negative, is
\* rejected with an error dialog (invalid input / invalid amount) and leaves
\* accounts and transactions unchanged.
C3_DepositBadAmountRejected ==
    [][sub_frame = "DepositFrame" =>
       \A a \in DepositEntries, fault \in 0..2, tick \in {1} :
        (/\ handle_deposit(a, fault, tick)
         /\ ~float(a).ok \/ float(a).value <= 0)
        => /\ messagebox'.kind = "showerror"
           /\ messagebox'.title = IF float(a).ok THEN "Invalid Amount"
                                  ELSE "Invalid Input"
           /\ accounts' = accounts
           /\ transactions' = transactions]_vars

\* A deposit was refused because its amount is not positive.
C3_Witness ==
    /\ sub_frame = "DepositFrame"
    /\ messagebox = showerror("Invalid Amount", "Deposit amount must be positive.")
    /\ accounts # <<>>

\* C4: a transfer of a from A to B with B an existing account other than A
\* and 0 < a <= balance(A) succeeds (a = balance(A) included); a successful
\* transfer lowers A's balance by exactly a, raises B's by exactly a, leaves
\* every other account alone and appends exactly two transactions, a
\* 'Transfer (Out)' of -a on A and then a 'Transfer (In)' of +a on B.
C4_TransferMovesExactAmount ==
    [][sub_frame = "TransferFrame" =>
       \A r \in RecipientEntries, a \in TransferEntries, fault \in 0..4,
          tick \in {1}, tick2 \in 0..1 :
        handle_transfer(r, a, fault, tick, tick2) =>
        LET amount == float(a).value
            A == current_user_id
            B == IdOf(strip(r))
            m == Len(transactions)
            valid == /\ float(a).ok /\ amount > 0
                     /\ HasAccount(strip(r)) /\ B # A
                     /\ amount <= BalanceBefore(A)
            success == messagebox'.kind = "showinfo"
        IN  /\ (valid /\ fault = 0) => success
            /\ success =>
                /\ valid
                /\ Len(accounts') = Len(accounts)
                /\ \A i \in 1..Len(accounts) :
                     accounts'[i] =
                       [accounts[i] EXCEPT !.balance =
                           @ + (IF accounts[i].id = A THEN 0 - amount
                                ELSE IF accounts[i].id = B THEN amount ELSE 0)]
                /\ Len(transactions') = m + 2
                /\ SubSeq(transactions', 1, m) = transactions
                /\ transactions'[m + 1].account_id = A
                /\ transactions'[m + 1].type = "Transfer (Out)"
                /\ transactions'[m + 1].amount = 0 - amount
                /\ transactions'[m + 2].account_id = B
                /\ transactions'[m + 2].type = "Transfer (In)"
                /\ transactions'[m + 2].amount = amount]_vars

\* A transfer of the sender's whole balance has succeeded.
C4_Witness ==
    /\ messagebox.kind = "showinfo"
    /\ messagebox.message =
         "Successfully transferred ${amount:,.2f} to {recipient_username}."
    /\ Len(transactions) >= 2
    /\ LET out == transactions[Len(transactions) - 1]
           in == transactions[Len(transactions)]
       IN  /\ out.type = "Transfer (Out)" /\ out.account_id = current_user_id
           /\ in.type = "Transfer (In)" /\ in.account_id # current_user_id
           /\ in.amount > 0 /\ out.amount = 0 - in.amount
    /\ BalanceBefore(current_user_id) = 0

\* C5: a transfer whose recipient username resolves to no account is
\* rejected with an error dialog and changes neither table; with an amount
\* that passed the checks that come first (a positive number) the dialog says
\* that the recipient account was not found.
C5_TransferUnknownRecipientRejected ==
    [][sub_frame = "TransferFrame" =>
       \A r \in RecipientEntries, a \in TransferEntries, fault \in 0..4,
          tick \in {1}, tick2 \in 0..1 :
        (handle_transfer(r, a, fault, tick, tick2) /\ ~HasAccount(strip(r)))
        => /\ messagebox'.kind = "showerror"
           /\ (float(a).ok /\ float(a).value > 0)
                => messagebox' = showerror("Transfer Failed",
                       "Recipient account '{recipient_username}' not found.")
           /\ accounts' = accounts
           /\ transactions' = transactions]_vars

\* A transfer to a username that differs from an existing one only in case
\* was refused.
C5_Witness ==
    /\ sub_frame = "TransferFrame"
    /\ messagebox.message = "Recipient account '{recipient_username}' not found."
    /\ HasAccount("alice")
    /\ ~HasAccount("Alice")

\* C6: a transfer of a valid positive amount whose recipient is the sender's
\* own account is rejected with the own-account dialog, whether or not the
\* sender's funds cover the amount, and changes neither table.
C6_TransferToSelfRejected ==
    [][sub_frame = "TransferFrame" =>
       \A r \in RecipientEntries, a \in TransferEntries, fault \in 0..4,
          tick \in {1}, tick2 \in 0..1 :
        (/\ handle_transfer(r, a, fault, tick, tick2)
         /\ float(a).ok /\ float(a).value > 0
         /\ HasAccount(strip(r)) /\ IdOf(strip(r)) = current_user_id)
        => /\ messagebox' = showerror("Transfer Failed",
                                      "Cannot transfer funds to your own account.")
           /\ accounts' = accounts
           /\ transactions' = transactions]_vars

\* A transfer to the sender's own account was refused although the sender
\* holds nothing, so that any positive amount exceeds the balance.
C6_Witness ==
    /\ sub_frame = "TransferFrame"
    /\ messagebox.message = "Cannot transfer funds to your own account."
    /\ HasAccount(current_username)
    /\ BalanceBefore(current_user_id) = 0

\* C7: a successful account creation with initial deposit d adds one account
\* whose balance is d and records exactly one transaction for it: a 'Deposit'
\* of d with the description "Initial deposit on account creation".
C7_CreateAccountRecordsInitialDeposit ==
    [][frame = "RegisterFrame" =>
       \A u \in RegisterUsernameEntries, p \in RegisterPasswordEntries,
          d \in InitialDepositEntries, fault \in 0..2, tick \in {1} :
        (register_user(u, p, d, fault, tick) /\ messagebox'.kind = "showinfo")
        => LET n == Len(accounts)
               m == Len(transactions)
               new == accounts'[n + 1]
           IN  /\ Len(accounts') = n + 1
               /\ SubSeq(accounts', 1, n) = accounts
               /\ new.username = strip(u)
               /\ new.id \notin {accounts[i].id : i \in 1..n}
               /\ new.balance = float(d).value
               /\ Len(transactions') = m + 1
               /\ SubSeq(transactions', 1, m) = transactions
               /\ Cardinality({j \in 1..(m + 1) :
                                 transactions'[j].account_id = new.id}) = 1
               /\ transactions'[m + 1].account_id = new.id
               /\ transactions'[m + 1].type = "Deposit"
               /\ transactions'[m + 1].amount = float(d).value
               /\ transactions'[m + 1].description =
                    "Initial deposit on account creation"]_vars

\* An account has just been created with an initial deposit of 2.
C7_Witness ==
    /\ messagebox.message = "Account created successfully! You can now log in."
    /\ accounts # <<>> /\ transactions # <<>>
    /\ accounts[Len(accounts)].balance = 2
    /\ transactions[Len(transactions)].account_id = accounts[Len(accounts)].id
    /\ transactions[Len(transactions)].type = "Deposit"
    /\ transactions[Len(transactions)].amount = 2

\* C8: creating an account under a username that exists, or with an initial
\* deposit that is negative or not a number, fails: the failure comes back
\* as a message (shown in the "Registration Failed" dialog), and neither
\* table changes.  A bad deposit gives the invalid-amount message; an
\* existing username with a good deposit gives "Username already exists.".
C8_CreateAccountRejections ==
    [][frame = "RegisterFrame" =>
       \A u \in RegisterUsernameEntries, p \in RegisterPasswordEntries,
          d \in InitialDepositEntries, fault \in 0..2, tick \in {1} :
        (/\ register_user(u, p, d, fault, tick)
         /\ strip(u) # "" /\ p # "" /\ d # "")
        => LET dup == HasAccount(strip(u))
               bad == ~float(d).ok \/ float(d).value < 0
           IN  (dup \/ bad) =>
                 /\ messagebox'.kind = "showerror"
                 /\ messagebox'.title = "Registration Failed"
                 /\ bad => messagebox'.message =
                             IF float(d).ok
                             THEN "Initial deposit cannot be negative."
                             ELSE "Initial deposit must be a valid number."
                 /\ (dup /\ ~bad) => messagebox'.message = "Username already exists."
                 /\ accounts' = accounts
                 /\ transactions' = transactions]_vars

\* A registration under a username that exists was refused.
C8_Witness ==
    /\ frame = "RegisterFrame"
    /\ messagebox = showerror("Registration Failed", "Username already exists.")
    /\ accounts # <<>>

\* C9: when recording the initial deposit fails after the account row was
\* inserted, account creation does not leave the inconsistent account behind:
\* every account the failed creation added has a balance equal to the sum of
\* its transactions.
C9_FailedCreationLeavesNoInconsistentAccount ==
    [][frame = "RegisterFrame" =>
       \A u \in RegisterUsernameEntries, p \in RegisterPasswordEntries,
          d \in InitialDepositEntries, fault \in 0..2, tick \in {1} :
        (/\ register_user(u, p, d, fault, tick)
         /\ messagebox'.message = "Database error: {e}")
        => \A i \in 1..Len(accounts') :
             i > Len(accounts) =>
               accounts'[i].balance = TxSum(transactions', accounts'[i].id)]_vars

\* C10: a transfer that reports success has applied all four of its ledger
\* calls (debit, credit, out-record, in-record); a transfer that applied only
\* some of them reports the failure in an error dialog.
C10_TransferSuccessMeansAllApplied ==
    [][sub_frame = "TransferFrame" =>
       \A r \in RecipientEntries, a \in TransferEntries, fault \in 0..4,
          tick \in {1}, tick2 \in 0..1 :
        handle_transfer(r, a, fault, tick, tick2) =>
        LET amount == float(a).value
            A == current_user_id
            B == IdOf(strip(r))
            m == Len(transactions)
            added == (m + 1)..Len(transactions')
            all == /\ float(a).ok /\ HasAccount(strip(r))
                   /\ BalanceAfter(A) = BalanceBefore(A) - amount
                   /\ BalanceAfter(B) = BalanceBefore(B) + amount
                   /\ \E j \in added :
                        /\ transactions'[j].type = "Transfer (Out)"
                        /\ transactions'[j].account_id = A
                        /\ transactions'[j].amount = 0 - amount
                   /\ \E j \in added :
                        /\ transactions'[j].type = "Transfer (In)"
                        /\ transactions'[j].account_id = B
                        /\ transactions'[j].amount = amount
            untouched == accounts' = accounts /\ transactions' = transactions
        IN  /\ messagebox'.kind = "showinfo" => all
            /\ (~all /\ ~untouched)
                 => messagebox' = showerror("Error",
                        "An error occurred during transfer: {e}")]_vars

\* A transfer failed after its out-record was written and before its
\* in-record was, and the failure was reported.
C10_Witness ==
    /\ sub_frame = "TransferFrame"
    /\ messagebox = showerror("Error", "An error occurred during transfer: {e}")
    /\ transactions # <<>>
    /\ transactions[Len(transactions)].type = "Transfer (Out)"
    /\ transactions[Len(transactions)].account_id = current_user_id

\* C11: a successful deposit of a > 0 raises the account's balance by exactly
\* a and appends exactly one 'Deposit' transaction of +a; a successful
\* withdrawal of a with 0 < a <= balance lowers the balance by exactly a and
\* appends exactly one 'Withdrawal' transaction of -a.  Either succeeds when
\* its amount is in that range and no ledger call fails; no other account
\* and no earlier transaction changes.
C11_DepositWithdrawMoveExactAmount ==
    [][/\ sub_frame = "DepositFrame" =>
          \A a \in DepositEntries, fault \in 0..2, tick \in {1} :
            handle_deposit(a, fault, tick) =>
            LET amount == float(a).value
                m == Len(transactions)
                valid == float(a).ok /\ amount > 0
                success == messagebox'.kind = "showinfo"
            IN  /\ (valid /\ fault = 0) => success
                /\ success =>
                    /\ valid
                    /\ Len(accounts') = Len(accounts)
                    /\ \A i \in 1..Len(accounts) :
                         accounts'[i] =
                           [accounts[i] EXCEPT !.balance =
                               @ + (IF accounts[i].id = current_user_id
                                    THEN amount ELSE 0)]
                    /\ Len(transactions') = m + 1
                    /\ SubSeq(transactions', 1, m) = transactions
                    /\ transactions'[m + 1].account_id = current_user_id
                    /\ transactions'[m + 1].type = "Deposit"
                    /\ transactions'[m + 1].amount = amount
       /\ sub_frame = "WithdrawFrame" =>
          \A a \in WithdrawEntries, fault \in 0..2, tick \in {1} :
            handle_withdraw(a, fault, tick) =>
            LET amount == float(a).value
                m == Len(transactions)
                valid == /\ float(a).ok /\ amount > 0
                         /\ amount <= BalanceBefore(current_user_id)
                success == messagebox'.kind = "showinfo"
            IN  /\ (valid /\ fault = 0) => success
                /\ success =>
                    /\ valid
                    /\ Len(accounts') = Len(accounts)
                    /\ \A i \in 1..Len(accounts) :
                         accounts'[i] =
                           [accounts[i] EXCEPT !.balance =
                               @ - (IF accounts[i].id = current_user_id
                                    THEN amount ELSE 0)]
                    /\ Len(transactions') = m + 1
                    /\ SubSeq(transactions', 1, m) = transactions
                    /\ transactions'[m + 1].account_id = current_user_id
                    /\ transactions'[m + 1].type = "Withdrawal"
                    /\ transactions'[m + 1].amount = 0 - amount]_vars

\* A withdrawal of 1 has just succeeded, right after a deposit of 1 into an
\* account that held 2.
C11_Witness ==
    /\ messagebox = showinfo("Success", "Successfully withdrew ${amount:,.2f}.")
    /\ Len(transactions) >= 3
    /\ LET m == Len(transactions)
       IN  /\ transactions[m].type = "Withdrawal"
           /\ transactions[m].amount = 0 - 1
           /\ transactions[m].account_id = current_user_id
           /\ transactions[m - 1].type = "Deposit"
           /\ transactions[m - 1].amount = 1
           /\ transactions[m - 1].account_id = current_user_id
           /\ transactions[m - 2].amount = 2
           /\ transactions[m - 2].account_id = current_user_id
    /\ HasAccount(current_username)
    /\ BalanceBefore(current_user_id) = 2

\* ------------------------------------------------- properties of merge_sort
\* The key values of a list of records.
KeyValue(record) == record[sort_key_index + 1]

\* Every record of the argument has a number in the key field.
NumericKey ==
    \A i \in 1..Len(sort_arr) : KeyValue(sort_arr[i]).t \in {"int", "float"}

\* How often a record occurs in a list.
Occurrences(list, record) == Cardinality({i \in 1..Len(list) : list[i] = record})

\* C12: for a list of records with a numeric key field merge_sort returns a
\* list of the same length with the same multiset of records, whose key
\* values are non-decreasing when ascending and non-increasing when not.
C12_MergeSortSortsNumericKey ==
    (sort_returned.called /\ NumericKey) =>
        LET result == sort_returned.result
        IN  /\ ~sort_returned.raised
            /\ Len(result) = Len(sort_arr)
            /\ \A i \in 1..Len(sort_arr) :
                 Occurrences(result, sort_arr[i]) = Occurrences(sort_arr, sort_arr[i])
            /\ \A i \in 1..(Len(result) - 1) :
                 IF sort_ascending
                 THEN KeyValue(result[i]).n <= KeyValue(result[i + 1]).n
                 ELSE KeyValue(result[i]).n >= KeyValue(result[i + 1]).n

\* merge_sort has put three statement records, given out of order and with
\* two equal amounts among them, in ascending order of amount.
C12_Witness ==
    /\ sort_returned.called
    /\ NumericKey
    /\ sort_ascending
    /\ sort_key_index = 2
    /\ Len(sort_arr) = 3
    /\ KeyValue(sort_arr[1]).n > KeyValue(sort_arr[2]).n
    /\ KeyValue(sort_arr[2]).n = KeyValue(sort_arr[3]).n
    /\ sort_arr[2] # sort_arr[3]
    /\ sort_returned.result # sort_arr

\* The place of a record that occurs once in a list.
PlaceOf(list, record) == CHOOSE i \in 1..Len(list) : list[i] = record

\* C13: merge_sort is stable in both directions: two records whose values in
\* the selected field are equal come out in the order they went in.
C13_MergeSortStable ==
    (sort_returned.called /\ ~sort_returned.raised) =>
        \A i \in 1..Len(sort_arr) : \A j \in (i + 1)..Len(sort_arr) :
            (/\ KeyValue(sort_arr[i]) = KeyValue(sort_arr[j])
             /\ Occurrences(sort_arr, sort_arr[i]) = 1
             /\ Occurrences(sort_arr, sort_arr[j]) = 1
             /\ Occurrences(sort_returned.result, sort_arr[i]) = 1
             /\ Occurrences(sort_returned.result, sort_arr[j]) = 1)
            => PlaceOf(sort_returned.result, sort_arr[i])
                 < PlaceOf(sort_returned.result, sort_arr[j])

\* C14: merge_sort never raises on a comparison type mismatch: a call returns
\* an ordering of its argument (a list of the same records) also when the
\* selected field is one that is read as an amount (key index 2 or 3) and
\* holds a number in one record and a text or nothing in another.
C14_MergeSortNeverRaises ==
    sort_returned.called =>
        /\ ~sort_returned.raised
        /\ Len(sort_returned.result) = Len(sort_arr)
        /\ \A i \in 1..Len(sort_arr) :
             Occurrences(sort_returned.result, sort_arr[i])
               = Occurrences(sort_arr, sort_arr[i])

\* The selected field is the amount field of the records' shape: index 2 of
\* a statement record, index 3 of a system history record.
AmountFieldSelected ==
    \E i \in 1..Len(sort_arr) :
        \/ Len(sort_arr[i]) = 4 /\ sort_key_index = 2
        \/ Len(sort_arr[i]) = 5 /\ sort_key_index = 3

\* C15: when the selected field is not the amount field of the records'
\* shape and holds strings, merge_sort orders the records by the natural
\* (lexicographic) order of the raw strings, never by their numeric value.
\* The n of a string value is its place in that order.
C15_MergeSortNaturalOrderOffAmount ==
    (/\ sort_returned.called
     /\ ~AmountFieldSelected
     /\ \A i \in 1..Len(sort_arr) : KeyValue(sort_arr[i]).t = "str") =>
        LET result == sort_returned.result
        IN  /\ ~sort_returned.raised
            /\ Len(result) = Len(sort_arr)
            /\ \A i \in 1..(Len(result) - 1) :
                 IF sort_ascending
                 THEN KeyValue(result[i]).n <= KeyValue(result[i + 1]).n
                 ELSE KeyValue(result[i]).n >= KeyValue(result[i + 1]).n

\* ------------------------------------------------------------------------
\* properties of the store over time

\* C16: transactions are append-only: every step keeps each existing row of
\* the transactions table in place with its id, account_id, type, amount,
\* timestamp and description unchanged; rows are only added after them.
C16_TransactionsAppendOnly ==
    [][/\ Len(transactions') >= Len(transactions)
       /\ \A i \in 1..Len(transactions) : transactions'[i] = transactions[i]
       /\ \A i \in 1..Len(transactions') : transactions'[i].id = i]_vars

\* Rows were there and a later operation has added more: a deposit handler
\* or a transfer has recorded after the row of an account creation.
C16_Witness ==
    /\ Len(transactions) >= 3
    /\ \E i \in 1..Len(transactions) : transactions[i].type = "Transfer (Out)"
    /\ transactions[1].id = 1

\* A row of the CSV file that the import takes: its amount is a number and
\* its username and type are not empty.
ImportedRow(row) ==
    float(row.Amount).ok /\ strip(row.Username) # "" /\ strip(row.Type) # ""

\* What a taken row does to the balance of the account it names.
RowMove(row) ==
    IF strip(row.Type) \in {"deposit", "Deposit", "DEPOSIT"}
    THEN float(row.Amount).value
    ELSE IF strip(row.Type) \in {"withdraw", "Withdraw", "WITHDRAW"}
    THEN 0 - float(row.Amount).value
    ELSE 0

\* The moves of the taken rows that name the username, added up.
RECURSIVE ImportMove(_, _)
ImportMove(rows, username) ==
    IF rows = <<>> THEN 0
    ELSE (IF ImportedRow(Head(rows)) /\ strip(Head(rows).Username) = username
          THEN RowMove(Head(rows)) ELSE 0)
         + ImportMove(Tail(rows), username)

\* C17: the first-run CSV import moves the balance of the account a row names
\* by +amount when the row's type is 'deposit' and by -amount when it is
\* 'withdraw' (in any letter case); a row of another type leaves the balance
\* as it is; every such row is recorded as a transaction of that account
\* with the row's amount.
C17_ImportMovesBalanceByType ==
    [][\A csv \in CsvFiles :
        (/\ BankingApp_init(csv)
         /\ transactions = <<>>
         /\ csv.exists
         /\ {"Username", "Type", "Amount"} \subseteq csv.fieldnames) =>
        \A k \in 1..Len(csv.rows) :
            ImportedRow(csv.rows[k]) =>
            LET username == strip(csv.rows[k].Username)
                before == IF HasAccount(username)
                          THEN BalanceBefore(IdOf(username)) ELSE 0
            IN  \E i \in 1..Len(accounts') :
                  /\ accounts'[i].username = username
                  /\ accounts'[i].balance = before + ImportMove(csv.rows, username)
                  /\ \E j \in 1..Len(transactions') :
                       /\ transactions'[j].account_id = accounts'[i].id
                       /\ transactions'[j].amount = float(csv.rows[k].Amount).value
                       /\ transactions'[j].description = strip(csv.rows[k].Description)
      ]_vars

\* The import has taken a 'WITHDRAW' row of amount 1: the row is recorded
\* and the account it names stands at -1.
C17_Witness ==
    \E j \in 1..Len(transactions) :
        /\ transactions[j].type = "Withdraw"
        /\ transactions[j].amount = 1
        /\ \E i \in 1..Len(accounts) :
             /\ accounts[i].id = transactions[j].account_id
             /\ accounts[i].balance = 0 - 1

\* A step of an account operation (account creation, deposit, withdraw,
\* transfer): any step but a start of the application, which runs the import.
AccountOperationStep == ~(\E csv \in CsvFiles : BankingApp_init(csv))

\* The places of the rows a step adds to the transactions table.
NewRows == (Len(transactions) + 1)..Len(transactions')

C19_GetBalanceUnknownIdIsZero ==
    [][(/\ call_get_balance
        /\ ~(\E i \in 1..Len(accounts) : accounts[i].id = balance_user_id)) =>
            /\ balance_returned'.called
            /\ balance_returned'.result = 0
            /\ accounts' = accounts
            /\ transactions' = transactions
            /\ admins' = admins]_vars

\* get_balance has returned 0 for an id that no row carries, on a store whose
\* accounts hold money.
C19_Witness ==
    /\ balance_returned.called
    /\ balance_returned.result = 0
    /\ balance_user_id # None
    /\ ~(\E i \in 1..Len(accounts) : accounts[i].id = balance_user_id)
    /\ Len(accounts) = 2
    /\ \A i \in 1..Len(accounts) : accounts[i].balance > 0

\* ------------------------------------------------ properties of the accounts

\* No two rows of the table carry the same username (the strings compared
\* as they are, letter case included).
UsernamesUnique(accts) ==
    \A i, j \in 1..Len(accts) :
        accts[i].username = accts[j].username => i = j

\* C20: in every state no two accounts share a username, compared
\* case-sensitively; and every step keeps each account row, with the id and
\* the username it has.
C20_UsernamesUniqueAccountsKept ==
    [][/\ UsernamesUnique(accounts)
       /\ UsernamesUnique(accounts')
       /\ Len(accounts') >= Len(accounts)
       /\ \A i \in 1..Len(accounts) :
            /\ accounts'[i].id = accounts[i].id
            /\ accounts'[i].username = accounts[i].username]_vars

\* Two accounts exist and a registration under a username in use has just
\* been turned down.
C20_Witness ==
    /\ Len(accounts) = 2
    /\ accounts[1].username # accounts[2].username
    /\ messagebox = showerror("Registration Failed", "Username already exists.")

\* ------------------------------------------------ properties of the admins

\* The admins table holds the seeded admin and nothing else.
OnlySeededAdmin(adms) ==
    /\ Len(adms) = 1
    /\ adms[1].username = ADMIN_USERNAME
    /\ adms[1].password = ADMIN_PASSWORD

\* C21: from the first start of the application on, through every restart
\* and every operation, the admins table holds exactly one record, the seeded
\* admin: a start inserts it when it is absent and leaves the table alone when
\* it is there, and no other step changes the table.
C21_ExactlyOneSeededAdmin ==
    [][/\ frame' # "closed" => OnlySeededAdmin(admins')
       /\ frame # "closed" => admins' = admins]_vars

\* The application has been started on a database that held the admin and
\* transactions already: the welcome frame is up, nobody is logged in, and
\* the rows of earlier operations are there.
C21_Witness ==
    /\ frame = "WelcomeFrame"
    /\ OnlySeededAdmin(admins)
    /\ Len(accounts) >= 2
    /\ \E j \in 1..Len(transactions) : transactions[j].type = "Transfer (In)"

\* ------------------------------------------------ properties of the caches

\* The cache holds exactly the records of the list the store returned.
SameRecords(rows, fetched) ==
    /\ Len(rows) = Len(fetched)
    /\ \A i \in 1..Len(fetched) :
         Occurrences(rows, fetched[i]) = Occurrences(fetched, fetched[i])

\* The field at the key index does not increase / does not decrease along
\* the list.
NonIncreasing(rows, key_index) ==
    \A i \in 1..(Len(rows) - 1) : rows[i][key_index + 1].n >= rows[i + 1][key_index + 1].n
NonDecreasing(rows, key_index) ==
    \A i \in 1..(Len(rows) - 1) : rows[i][key_index + 1].n <= rows[i + 1][key_index + 1].n

\* C22: the lists prepared at login are ordered as specified and complete:
\* a user's login caches the statement of the account newest first, an
\* admin's login caches the system history newest first and the account
\* summary by username ascending; each cache holds exactly the records the
\* store returned.
C22_LoginCachesOrdered ==
    [][/\ (frame = "LoginFrame" /\ frame' = "UserHomeFrame") =>
            /\ sorted_statements'.cached
            /\ SameRecords(sorted_statements'.rows,
                           get_transaction_history(transactions, current_user_id'))
            /\ NonIncreasing(sorted_statements'.rows, 0)
       /\ (frame = "AdminLoginFrame" /\ frame' = "AdminDashboardFrame") =>
            /\ sorted_all_transactions'.cached
            /\ SameRecords(sorted_all_transactions'.rows,
                           get_all_transactions(accounts, transactions))
            /\ NonIncreasing(sorted_all_transactions'.rows, 0)
            /\ sorted_accounts'.cached
            /\ SameRecords(sorted_accounts'.rows, get_all_accounts_summary(accounts))
            /\ NonDecreasing(sorted_accounts'.rows, 1)]_vars

\* An admin is logged in: the account summary had to be reordered (bob was
\* created before alice) and the system history spans several seconds.
C22_Witness ==
    /\ is_admin
    /\ sorted_accounts.cached
    /\ Len(sorted_accounts.rows) = 2
    /\ sorted_accounts.rows[1][1].n > sorted_accounts.rows[2][1].n
    /\ sorted_accounts.rows[1][2].s = "alice"
    /\ sorted_all_transactions.cached
    /\ Len(sorted_all_transactions.rows) >= 3
    /\ sorted_all_transactions.rows[1][1].n
         > sorted_all_transactions.rows[Len(sorted_all_transactions.rows)][1].n

\* ------------------------------------------- properties of the check order

\* The four checks of a transfer, stated on the entries and the tables.
InvalidAmount(a) == ~float(a).ok \/ float(a).value <= 0
RecipientNotFound(r) == ~HasAccount(strip(r))
SelfTransfer(r) == IdOf(strip(r)) = current_user_id
InsufficientFunds(a) == float(a).value > BalanceBefore(current_user_id)

\* C23: a transfer applies its checks in the order InvalidAmount,
\* RecipientNotFound, SelfTransfer, InsufficientFunds; the first check that
\* fails decides the dialog, and a transfer that fails a check makes no
\* ledger call: both tables are as before.  A transfer that passes all four
\* is not turned down by any of these dialogs.
C23_TransferCheckOrder ==
    [][sub_frame = "TransferFrame" =>
       \A r \in RecipientEntries, a \in TransferEntries, fault \in 0..4,
          tick \in {1}, tick2 \in 0..1 :
        handle_transfer(r, a, fault, tick, tick2) =>
          IF InvalidAmount(a)
          THEN /\ messagebox'.title \in {"Invalid Input", "Invalid Amount"}
               /\ accounts' = accounts /\ transactions' = transactions
          ELSE IF RecipientNotFound(r)
          THEN /\ messagebox' = showerror("Transfer Failed",
                       "Recipient account '{recipient_username}' not found.")
               /\ accounts' = accounts /\ transactions' = transactions
          ELSE IF SelfTransfer(r)
          THEN /\ messagebox' = showerror("Transfer Failed",
                       "Cannot transfer funds to your own account.")
               /\ accounts' = accounts /\ transactions' = transactions
          ELSE IF InsufficientFunds(a)
          THEN /\ messagebox'.title = "Insufficient Funds"
               /\ accounts' = accounts /\ transactions' = transactions
          ELSE messagebox'.title \in {"Success", "Error"}]_vars

\* A transfer to an unknown username was turned down as such by a sender
\* who holds nothing, so that the amount was above the balance as well.
C23_Witness ==
    /\ sub_frame = "TransferFrame"
    /\ messagebox = showerror("Transfer Failed",
                              "Recipient account '{recipient_username}' not found.")
    /\ \E i \in 1..Len(accounts) :
         accounts[i].id = current_user_id /\ accounts[i].balance = 0

\* ----------------------------------------- properties of the money at rest

\* Every account's balance is the sum of the amounts of its transactions,
\* before a step and after it.
BalancesMatchBefore ==
    \A i \in 1..Len(accounts) :
        accounts[i].balance = TxSum(transactions, accounts[i].id)
BalancesMatchAfter ==
    \A i \in 1..Len(accounts') :
        accounts'[i].balance = TxSum(transactions', accounts'[i].id)

\* C24: an account creation, a deposit, a withdraw or a transfer whose
\* ledger calls all complete without a fault preserves the balance invariant:
\* when every balance equalled the sum of the account's transaction amounts
\* before the operation, it does so after it.
C24_OperationsPreserveBalanceInvariant ==
    [][(frame \in {"RegisterFrame", "UserHomeFrame"} /\ BalancesMatchBefore) =>
        /\ \A u \in RegisterUsernameEntries, p \in RegisterPasswordEntries,
              d \in InitialDepositEntries :
             register_user(u, p, d, 0, 1) => BalancesMatchAfter
        /\ \A a \in DepositEntries : handle_deposit(a, 0, 1) => BalancesMatchAfter
        /\ \A a \in WithdrawEntries : handle_withdraw(a, 0, 1) => BalancesMatchAfter
        /\ \A r \in RecipientEntries, a \in TransferEntries, tick2 \in 0..1 :
             handle_transfer(r, a, 0, 1, tick2) => BalancesMatchAfter]_vars

\* Operations have acted and the balances match: two accounts were created
\* with their initial deposits, and a transfer between them is on record.
C24_Witness ==
    /\ Len(accounts) = 2
    /\ BalancesMatchBefore
    /\ \E j \in 1..Len(transactions) :
         transactions[j].description = "Initial deposit on account creation"
         /\ transactions[j].amount > 0
    /\ \E j \in 1..Len(transactions) :
         /\ transactions[j].type = "Transfer (In)"
         /\ \E i \in 1..Len(accounts) :
              accounts[i].id = transactions[j].account_id /\ accounts[i].balance > 0

\* No account of the table has a negative balance.
NoNegativeBalance(accts) == \A i \in 1..Len(accts) : accts[i].balance >= 0

\* C25: account creations, deposits, withdrawals and transfers, issued one
\* at a time, never leave an account with a negative balance: a step of an
\* account operation taken where no balance is negative ends where none is
\* (and before the first start there is no account).
C25_NoNegativeBalance ==
    [][(AccountOperationStep /\ NoNegativeBalance(accounts))
         => NoNegativeBalance(accounts')]_vars

\* A registered account has been emptied to the last unit: it stands at 0
\* and a withdrawal or an outgoing transfer of its is on record.
C25_Witness ==
    /\ NoNegativeBalance(accounts)
    /\ \E j \in 1..Len(transactions) :
         /\ transactions[j].type \in {"Withdrawal", "Transfer (Out)"}
         /\ transactions[j].amount < 0
         /\ \E i \in 1..Len(accounts) :
              /\ accounts[i].id = transactions[j].account_id
              /\ accounts[i].password = "pw"
              /\ accounts[i].balance = 0

\* The balances of all accounts, and the amounts of all transactions, added up.
RECURSIVE BalanceTotal(_)
BalanceTotal(accts) ==
    IF accts = <<>> THEN 0 ELSE Head(accts).balance + BalanceTotal(Tail(accts))
RECURSIVE AmountTotal(_)
AmountTotal(txs) ==
    IF txs = <<>> THEN 0 ELSE Head(txs).amount + AmountTotal(Tail(txs))

\* C26: a successful transfer conserves money: the sum of all account
\* balances and the sum of all transaction amounts are after the transfer
\* what they were before it.
C26_TransferConservesMoney ==
    [][sub_frame = "TransferFrame" =>
       \A r \in RecipientEntries, a \in TransferEntries, fault \in 0..4,
          tick \in {1}, tick2 \in 0..1 :
        (/\ handle_transfer(r, a, fault, tick, tick2)
         /\ messagebox'.kind = "showinfo")
        => /\ BalanceTotal(accounts') = BalanceTotal(accounts)
           /\ AmountTotal(transactions') = AmountTotal(transactions)
           /\ accounts' # accounts
           /\ Len(transactions') = Len(transactions) + 2]_vars

\* A transfer has just succeeded: money has moved and the totals still match.
C26_Witness ==
    /\ messagebox = showinfo("Success",
           "Successfully transferred ${amount:,.2f} to {recipient_username}.")
    /\ BalanceTotal(accounts) > 0
    /\ BalanceTotal(accounts) = AmountTotal(transactions)
    /\ transactions[Len(transactions)].type = "Transfer (In)"

\* ------------------------------------------------ properties of the sessions

\* The step lowers the stored balance of the account row i.
Lowers(i) == accounts'[i].balance < accounts[i].balance

\* The step is one of an operation issued in a session, and the debit
\* transactions it adds (rows of a negative amount) all go to the account of
\* the session, which is a user's.
DebitRowsToOwnAccount ==
    (AccountOperationStep /\ current_user_id # None) =>
        \A j \in NewRows :
            transactions'[j].amount < 0
              => transactions'[j].account_id = current_user_id /\ ~is_admin

\* The step is taken by the withdraw or the transfer handler in the session
\* of the account row i.
InOwnSession(i) ==
    /\ current_user_id = accounts[i].id
    /\ ~is_admin
    /\ frame = "UserHomeFrame"
    /\ sub_frame \in {"WithdrawFrame", "TransferFrame"}

\* The step opens a user session.  It is opened by a credential check when
\* the step is one of the login handler and, whatever username and password
\* were entered, they are those of the account the session is for.
OpensUserSession == current_user_id' \notin {None, current_user_id} /\ ~is_admin'
ByCredentialCheck ==
    /\ frame = "LoginFrame"
    /\ \E u \in LoginUsernameEntries, p \in LoginPasswordEntries : login_user(u, p)
    /\ \A u \in LoginUsernameEntries, p \in LoginPasswordEntries :
         login_user(u, p) =>
           \E i \in 1..Len(accounts) :
             /\ accounts[i].id = current_user_id'
             /\ accounts[i].username = strip(u)
             /\ accounts[i].password = p

TouchesOnly(ids) ==
    /\ Len(accounts') = Len(accounts)
    /\ \A i \in 1..Len(accounts) :
         /\ accounts'[i].id = accounts[i].id
         /\ accounts[i].id \notin ids => accounts'[i] = accounts[i]
    /\ Len(transactions') >= Len(transactions)
    /\ SubSeq(transactions', 1, Len(transactions)) = transactions
    /\ \A j \in NewRows : transactions'[j].account_id \in ids
    /\ admins' = admins

C29_StatementShowsStoredTransactions ==
    (frame = "UserHomeFrame" /\ sub_frame = "StatementFrame") =>
        SameRecords(StatementFrame_on_show,
                    get_transaction_history(transactions, current_user_id))

\* ------------------------------------------ properties of the session caches

\* Every row of the list occurs in the other list at least as often.
ContainedIn(rows, fetched) ==
    \A i \in 1..Len(rows) : Occurrences(rows, rows[i]) <= Occurrences(fetched, rows[i])

\* The session fields and the three caches as __init__ and logout leave them.
SessionCleared ==
    /\ current_user_id = None
    /\ current_username = "None"
    /\ ~is_admin
    /\ sorted_statements = NoCache
    /\ sorted_accounts = NoCache
    /\ sorted_all_transactions = NoCache

\* sorted_statements is None or holds transactions of the account
\* current_user_id only; the two admin caches are None unless is_admin.
CachesOfThisSession ==
    /\ sorted_statements.cached =>
         ContainedIn(sorted_statements.rows,
                     HistoryRows(transactions, current_user_id))
    /\ sorted_accounts.cached => is_admin
    /\ sorted_all_transactions.cached => is_admin

\* C30: session caches never leak across sessions: in every state a step
\* leads to (before the first step all three caches are None)
\* sorted_statements is None or holds only transactions of the account
\* current_user_id, and sorted_accounts and sorted_all_transactions are
\* non-None only while is_admin; a step that leaves a session (logout)
\* resets current_user_id, current_username, is_admin and the three caches,
\* and a step that opens a session starts from that cleared state.
C30_CachesDoNotLeak ==
    [][/\ CachesOfThisSession'
       /\ (frame \in {"UserHomeFrame", "AdminDashboardFrame"}
           /\ frame' \notin {"UserHomeFrame", "AdminDashboardFrame"}) => SessionCleared'
       /\ (frame \notin {"UserHomeFrame", "AdminDashboardFrame"}
           /\ frame' \in {"UserHomeFrame", "AdminDashboardFrame"}) => SessionCleared]_vars

\* The second account is logged in with its statement cached, the admin
\* caches are empty, and the first account has transactions of its own.
C30_Witness ==
    /\ frame = "UserHomeFrame"
    /\ current_user_id = 2
    /\ sorted_statements.cached
    /\ Len(sorted_statements.rows) >= 1
    /\ ~sorted_accounts.cached
    /\ ~sorted_all_transactions.cached
    /\ \E j \in 1..Len(transactions) :
         transactions[j].account_id = 1 /\ transactions[j].amount # 0
====
